---- MODULE Spec2Model ----
(***************************************************************************)
(* bossimage/core.py: the platform x profile configuration merge, the two  *)
(* voluptuous schemas, the per-instance state files with the cloud         *)
(* resources they stand for, and the two polling loops.                    *)
(*                                                                         *)
(* Python values are tagged pairs <<type, payload>>; a dict is a function  *)
(* from its keys (strings) to its values; a list is a sequence.            *)
(***************************************************************************)
EXTENDS Naturals, Integers, Sequences, FiniteSets, TLC

VARIABLES
    rawDoc,     \* the document as read from the configuration file
    c,          \* the document after pre_merge_schema (merge_config's argument)
    merged,     \* merge_config's result
    mstage,     \* "raw", "rejected", "validated", "merged"
    resolved,   \* post_merge_schema's result: <<"ok", mapping>> or <<"invalid">>
    vstage,     \* "pending", "valid", "raised"
    snapIn,     \* the string handed to is_snapshot_id
    snapOut,    \* <<"pending">>, <<"ok", s>> or <<"invalid", kind, s>>
    fs,         \* the files under .boss: path -> content
    keypairs,   \* the key pairs of the cloud account, by name
    instances,  \* the instances of the cloud account: id -> [state, ip]
    last,       \* the last call of load_or_create_instance or delete
    imgState,   \* the state of the image in the cloud
    imgSeen,    \* image.state, as of the last reload
    imgPc,      \* wait_for_image: "reload", "sleep", "returned", "raised"
    imgPolls,   \* reloads made so far (counted up to MaxPolls)
    sshUp,      \* whether port 22 of the instance accepts connections
    sshPc,      \* wait_for_ssh: "connect", "sleep", "returned"
    sshLast,    \* the last connection attempt: "none", "connected", "failed"
    sshPolls    \* connection attempts made so far (counted up to MaxPolls)

mergeVars == <<rawDoc, c, mstage>>

schemaVars == <<resolved, vstage>>

snapVars == <<snapIn, snapOut>>

lifeVars == <<fs, keypairs, instances, last>>

pollVars == <<imgState, imgSeen, imgPc, imgPolls, sshUp, sshPc, sshLast, sshPolls>>

vars == <<rawDoc, c, merged, mstage, resolved, vstage, snapIn, snapOut,
          fs, keypairs, instances, last,
          imgState, imgSeen, imgPc, imgPolls, sshUp, sshPc, sshLast, sshPolls>>

----------------------------------------------------------------------------
(* Python values and dicts *)

Str(s) == <<"str", s>>

Map(m) == <<"map", m>>

List(l) == <<"list", l>>

EmptyDict == [k \in {} |-> Str("")]

\* '{}'.format(v) of a string value
Text(v) == v[2]

\* d.update(e)
Update(d, e) == e @@ d

\* { k: v for k, v in d.items() if k in keep }
Only(d, keep) == [k \in (DOMAIN d) \cap keep |-> d[k]]

\* { k: v for k, v in d.items() if k not in drop }
Without(d, drop) == [k \in (DOMAIN d) \ drop |-> d[k]]

----------------------------------------------------------------------------
(* Bounds of the inputs *)

\* platforms and profiles of a document, together
MaxEntries == 4

PlatformNames == {"web", "web-db"}

ProfileNames == {"prod", "db-prod"}

\* keys a driver, platform or profile record may carry beside `name`
FieldKeys == {"extra_vars", "platform", "profile"}

\* the value a layer ("driver", "platform", "profile") declares for key k
LayerValue(layer, k) ==
    IF k = "extra_vars"
    THEN Map([v \in {"from"} |-> layer])
    ELSE Str(layer \o "." \o k)

\* the records of a layer: no key, or one of the keys
Overlays(layer) ==
    { EmptyDict } \cup { k :> LayerValue(layer, k) : k \in FieldKeys }

\* the records of a layer with a `name`
Named(names, layer) ==
    { Update(o, "name" :> Str(n)) : n \in names, o \in Overlays(layer) }

SeqsUpTo(S, n) == UNION { [1..k -> S] : k \in 0..n }

\* the platform lists, one of them with a platform that has no name
PlatformLists ==
    SeqsUpTo(Named(PlatformNames, "platform"), MaxEntries) \cup { <<EmptyDict>> }

\* the profile lists that may come with the platform list ps
ProfileLists(ps) == SeqsUpTo(Named(ProfileNames, "profile"), MaxEntries - Len(ps))

\* the keys a document has: all three, or all but one
DocKeys ==
    { {"driver", "platforms", "profiles"}, {"platforms", "profiles"},
      {"driver", "platforms"}, {"driver", "profiles"} }

----------------------------------------------------------------------------
(* pre_merge_schema *)

\* the default profile without its extra_vars
default_profiles_bare == << "name" :> Str("default") >>

default_profiles == << ("name" :> Str("default")) @@ ("extra_vars" :> Map(EmptyDict)) >>

\* [{ v.Required('name'): str }] with extra keys allowed
NamedList(l) ==
    \A i \in 1..Len(l) : "name" \in DOMAIN l[i] /\ l[i]["name"][1] = "str"

pre_merge_valid(doc) ==
    /\ "platforms" \in DOMAIN doc
    /\ NamedList(doc["platforms"])
    /\ "profiles" \in DOMAIN doc => NamedList(doc["profiles"])

\* the validated document: the input with the defaults filled in
pre_merge_schema(doc) ==
    Update(("driver" :> EmptyDict) @@ ("profiles" :> default_profiles), doc)

----------------------------------------------------------------------------
(* merge_config *)

\* '{}-{}'.format(a, b)
instance_key(a, b) == Text(a) \o "-" \o Text(b)

\* the driver defaults applied over the platform's own keys
resolve_driver_over_platform(driver, platform, profile) ==
    LET r1 == Without(platform, {"name"})
        r2 == Update(r1, "platform" :> platform["name"])
        r3 == Update(r2, Without(driver, {"name"}))
        r4 == Update(r3, Without(profile, {"name"}))
    IN  Update(r4, "profile" :> profile["name"])

\* the record one iteration of the inner loop stores
resolve(driver, platform, profile) ==
    LET r1 == Without(platform, {"name"})
        r2 == Update(r1, "platform" :> platform["name"])
        r3 == Update(r2, Without(driver, DOMAIN platform))
        r4 == Update(r3, Without(profile, {"name"}))
    IN  Update(r4, "profile" :> profile["name"])

NPairs(doc) == Len(doc["platforms"]) * Len(doc["profiles"])

\* the n-th (platform, profile) pair in iteration order
PlatformOf(doc, n) == doc["platforms"][((n - 1) \div Len(doc["profiles"])) + 1]

ProfileOf(doc, n) == doc["profiles"][((n - 1) % Len(doc["profiles"])) + 1]

KeyOf(doc, n) == instance_key(PlatformOf(doc, n)["name"], ProfileOf(doc, n)["name"])

RECURSIVE merge_loop(_, _)
merge_loop(doc, n) ==
    IF n = 0
    THEN [k \in {} |-> EmptyDict]
    ELSE Update(merge_loop(doc, n - 1),
                KeyOf(doc, n) :> resolve(doc["driver"], PlatformOf(doc, n), ProfileOf(doc, n)))

merge_config(doc) == merge_loop(doc, NPairs(doc))

----------------------------------------------------------------------------
(* The parts of the state a specification leaves alone *)

MergeIdle == rawDoc = EmptyDict /\ c = EmptyDict /\ mstage = "idle"

SchemaIdle == resolved = <<"pending">> /\ vstage = "idle"

SnapIdle == snapIn = <<>> /\ snapOut = <<"idle">>

LifeIdle ==
    /\ fs = EmptyDict
    /\ keypairs = {}
    /\ instances = EmptyDict
    /\ last = [n |-> 0, op |-> "idle"]

PollIdle ==
    /\ imgState = "pending"
    /\ imgSeen = "pending"
    /\ imgPc = "idle"
    /\ imgPolls = 0
    /\ sshUp = FALSE
    /\ sshPc = "idle"
    /\ sshLast = "none"
    /\ sshPolls = 0

----------------------------------------------------------------------------
(* Loading a configuration: validate, then merge *)

InitMerge ==
    /\ \E d \in Overlays("driver"), ps \in PlatformLists, ks \in DocKeys :
          \E qs \in ProfileLists(ps) :
              /\ "driver" \notin ks => d = EmptyDict
              /\ "platforms" \notin ks => ps = <<>>
              /\ "profiles" \notin ks => qs = <<>>
              /\ rawDoc = Only([driver |-> d, platforms |-> ps, profiles |-> qs], ks)
    /\ c = rawDoc
    /\ merged = [k \in {} |-> EmptyDict]
    /\ mstage = "raw"
    /\ SchemaIdle
    /\ SnapIdle
    /\ LifeIdle
    /\ PollIdle

PreMerge ==
    /\ mstage = "raw"
    /\ IF pre_merge_valid(rawDoc)
       THEN c' = pre_merge_schema(rawDoc) /\ mstage' = "validated"
       ELSE c' = c /\ mstage' = "rejected"
    /\ UNCHANGED <<rawDoc, merged, schemaVars, snapVars, lifeVars, pollVars>>

Merge ==
    /\ mstage = "validated"
    /\ merged' = merge_config(c)
    /\ mstage' = "merged"
    /\ UNCHANGED <<rawDoc, c, schemaVars, snapVars, lifeVars, pollVars>>

NextMerge == PreMerge \/ Merge

SpecMerge == InitMerge /\ [][NextMerge]_vars

----------------------------------------------------------------------------
(* State files of an instance, and the key load_or_create_instance derives *)

instance_files(instance) ==
    [ config    |-> ".boss/" \o instance \o ".yml",
      keyfile   |-> ".boss/" \o instance \o ".pem",
      inventory |-> ".boss/" \o instance \o ".inventory",
      playbook  |-> ".boss/" \o instance \o "-playbook.yml" ]

\* instance = '{}-{}'.format(config['platform'], config['profile'])
config_instance(config) == instance_key(config["platform"], config["profile"])

----------------------------------------------------------------------------
(* Properties of the merge *)

DistinctNames(l) ==
    \A i, j \in 1..Len(l) : i # j => l[i]["name"] # l[j]["name"]

\* the last pair, in iteration order, stored under key K: the pair the
\* record under K was built from
BuiltFrom(doc, K) ==
    CHOOSE n \in 1..NPairs(doc) :
        /\ KeyOf(doc, n) = K
        /\ \A m \in (n + 1)..NPairs(doc) : KeyOf(doc, m) # K

\* C1: with N pairwise-distinct platform names and M pairwise-distinct
\* profile names the merged mapping has exactly N*M entries, no two distinct
\* pairs sharing an instance key.
C1_OneEntryPerPair ==
    (mstage = "merged" /\ DistinctNames(c["platforms"]) /\ DistinctNames(c["profiles"]))
        => /\ Cardinality(DOMAIN merged) = NPairs(c)
           /\ \A n, m \in 1..NPairs(c) : n # m => KeyOf(c, n) # KeyOf(c, m)

\* C2: in every merged record, `platform` is the name of the platform the
\* record was built from and `profile` the name of the profile it was built
\* from, whatever keys the driver, the platform and the profile carry.
C2_PlatformProfileAreNames ==
    mstage = "merged" =>
        \A K \in DOMAIN merged :
            /\ merged[K]["platform"] = PlatformOf(c, BuiltFrom(c, K))["name"]
            /\ merged[K]["profile"] = ProfileOf(c, BuiltFrom(c, K))["name"]

\* the value precedence driver < platform < profile gives key k, as a
\* one-entry dict, or the empty dict when no layer has k
Precedence(d, p, q, k) ==
    IF k \in DOMAIN q THEN k :> q[k]
    ELSE IF k \in DOMAIN p THEN k :> p[k]
    ELSE IF k \in DOMAIN d THEN k :> d[k]
    ELSE EmptyDict

FollowsPrecedence(rec, d, p, q) ==
    \A k \in (FieldKeys \cup DOMAIN rec) \ {"name", "platform", "profile"} :
        Only(rec, {k}) = Precedence(d, p, q, k)

\* C3: merge precedence is driver < platform < profile. For every pair, the
\* record stored for it takes each key other than name, platform and profile
\* from the profile if the profile has it, else from the platform, else from
\* the driver, and lacks the key if none has it; and every record of the
\* result is the one stored for the pair it was built from.
C3_MergePrecedence ==
    mstage = "merged" =>
        /\ \A n \in 1..NPairs(c) :
              FollowsPrecedence(merge_loop(c, n)[KeyOf(c, n)],
                                c["driver"], PlatformOf(c, n), ProfileOf(c, n))
        /\ \A K \in DOMAIN merged :
              FollowsPrecedence(merged[K], c["driver"],
                                PlatformOf(c, BuiltFrom(c, K)), ProfileOf(c, BuiltFrom(c, K)))

\* a key declared by all three layers, resolved, and the same key declared
\* by the driver and the platform only
C3_Witness ==
    /\ mstage = "merged"
    /\ \E n \in 1..NPairs(c) :
          /\ "extra_vars" \in DOMAIN c["driver"] \cap DOMAIN PlatformOf(c, n) \cap DOMAIN ProfileOf(c, n)
          /\ merged[KeyOf(c, n)]["extra_vars"] = LayerValue("profile", "extra_vars")
    /\ \E n \in 1..NPairs(c) :
          /\ "extra_vars" \in (DOMAIN c["driver"] \cap DOMAIN PlatformOf(c, n)) \ DOMAIN ProfileOf(c, n)
          /\ merged[KeyOf(c, n)]["extra_vars"] = LayerValue("platform", "extra_vars")

\* C4: without a `profiles` key, validation then merge gives one record per
\* platform (name), keyed "<platform.name>-default", with profile "default"
\* and extra_vars the empty mapping, whatever the driver and the platform
\* declare for extra_vars.
C4_DefaultProfile ==
    (mstage = "merged" /\ "profiles" \notin DOMAIN rawDoc) =>
        LET ps == rawDoc["platforms"]
        IN  /\ DOMAIN merged =
                  { instance_key(ps[i]["name"], Str("default")) : i \in 1..Len(ps) }
            /\ Cardinality(DOMAIN merged) =
                  Cardinality({ ps[i]["name"] : i \in 1..Len(ps) })
            /\ \A K \in DOMAIN merged :
                  /\ merged[K]["profile"] = Str("default")
                  /\ "extra_vars" \in DOMAIN merged[K]
                  /\ merged[K]["extra_vars"] = Map(EmptyDict)

\* two platforms, one declaring extra_vars, under a driver declaring it too
C4_Witness ==
    /\ mstage = "merged"
    /\ "profiles" \notin DOMAIN rawDoc
    /\ "driver" \in DOMAIN rawDoc
    /\ "extra_vars" \in DOMAIN rawDoc["driver"]
    /\ Len(rawDoc["platforms"]) = 2
    /\ rawDoc["platforms"][1]["name"] # rawDoc["platforms"][2]["name"]
    /\ "extra_vars" \in DOMAIN rawDoc["platforms"][1]
    /\ Cardinality(DOMAIN merged) = 2

\* C9: the instance key load_or_create_instance recomputes from a merged
\* record equals the key merge_config stored the record under, so the state
\* files of a record are those its key names and no two records share them.
C9_KeyRecomputed ==
    mstage = "merged" =>
        \A K \in DOMAIN merged :
            /\ config_instance(merged[K]) = K
            /\ instance_files(config_instance(merged[K])) = instance_files(K)
            /\ \A L \in DOMAIN merged \ {K} :
                  instance_files(config_instance(merged[L]))
                      # instance_files(config_instance(merged[K]))

----------------------------------------------------------------------------
(* Validators: invalid, re_validator, coll_validator and their uses.        *)
(* A string a regular expression inspects is a sequence of characters.      *)

Digits == {"0", "1", "2", "3", "4", "5", "6", "7", "8", "9"}

HexDigits == Digits \cup {"a", "b", "c", "d", "e", "f"}

SnapPrefix == <<"s", "n", "a", "p", "-">>

HexCount == 8

\* v.Invalid('Invalid {}: {}'.format(kind, item))
invalid(kind, item) == <<"invalid", kind, item>>

\* re.match(pat, s) for pat = <literal>[<class>]{<count>}: a match at the
\* start of s; what follows the match is not looked at
re_match(literal, class, count, s) ==
    /\ Len(s) >= Len(literal) + count
    /\ SubSeq(s, 1, Len(literal)) = literal
    /\ \A i \in (Len(literal) + 1)..(Len(literal) + count) : s[i] \in class

re_validator(literal, class, count, s, kind) ==
    IF ~re_match(literal, class, count, s) THEN invalid(kind, s) ELSE <<"ok", s>>

coll_validator(coll, kind, thing) ==
    IF thing \notin coll THEN invalid(kind, thing) ELSE <<"ok", thing>>

is_snapshot_id(s) == re_validator(SnapPrefix, HexDigits, HexCount, s, "snapshot_id")

\* r'ephemeral\d+': the literal and at least one digit
is_virtual_name(s) ==
    re_validator(<<"e", "p", "h", "e", "m", "e", "r", "a", "l">>, Digits, 1, s, "virtual_name")

is_volume_type(s) == coll_validator({"gp2", "io1", "standard"}, "volume_type", s)

----------------------------------------------------------------------------
(* is_snapshot_id on its own *)

MaxBody == 9

BodyChars == {"a", "9", "g"}

SnapDeadbeef == <<"s", "n", "a", "p", "-", "d", "e", "a", "d", "b", "e", "e", "f">>

SnapXyz == <<"s", "n", "a", "p", "-", "x", "y", "z">>

SnapInputs ==
    { pre \o body : pre \in {SnapPrefix, <<"s", "n", "a", "p">>, <<>>},
                    body \in SeqsUpTo(BodyChars, MaxBody) }
        \cup {SnapDeadbeef, SnapXyz}

InitSnap ==
    /\ snapIn \in SnapInputs
    /\ snapOut = <<"pending">>
    /\ MergeIdle
    /\ merged = [k \in {} |-> EmptyDict]
    /\ SchemaIdle
    /\ LifeIdle
    /\ PollIdle

ValidateSnapshotId ==
    /\ snapOut = <<"pending">>
    /\ snapOut' = is_snapshot_id(snapIn)
    /\ UNCHANGED <<snapIn, mergeVars, merged, schemaVars, lifeVars, pollVars>>

NextSnap == ValidateSnapshotId

SpecSnap == InitSnap /\ [][NextSnap]_vars

\* `snap-` followed by 8 hexadecimal characters, and nothing else
ExactSnapshotId(s) ==
    /\ Len(s) = Len(SnapPrefix) + HexCount
    /\ SubSeq(s, 1, Len(SnapPrefix)) = SnapPrefix
    /\ \A i \in (Len(SnapPrefix) + 1)..Len(s) : s[i] \in HexDigits

\* C6: the snapshot_id validator accepts a string exactly when it is `snap-`
\* followed by 8 hexadecimal characters and raises invalid snapshot_id for
\* every other string, those that only begin that way included.
C6_SnapshotIdExact ==
    snapOut # <<"pending">> /\ snapOut # <<"idle">> =>
        /\ ExactSnapshotId(snapIn) => snapOut = <<"ok", snapIn>>
        /\ ~ExactSnapshotId(snapIn) => snapOut = invalid("snapshot_id", snapIn)

----------------------------------------------------------------------------
(* post_merge_schema *)

RecordKeys ==
    {"platform", "profile", "extra_vars", "image", "instance_type", "username",
     "block_device_mappings"}

DeviceKeys == {"device_name", "ebs", "no_device", "virtual_name"}

EbsKeys ==
    {"volume_size", "volume_type", "delete_on_termination", "encrypted", "iops",
     "snapshot_id"}

\* key: type, for a key the dict may leave out
Typed(d, k, type) == k \in DOMAIN d => d[k][1] = type

\* key: validator, for a key the dict may leave out
Passes(d, k, result) == k \in DOMAIN d => result[1] = "ok"

valid_ebs(e) ==
    /\ e[1] = "map"
    /\ DOMAIN e[2] \subseteq EbsKeys
    /\ Typed(e[2], "volume_size", "int")
    /\ Passes(e[2], "volume_type", is_volume_type(e[2]["volume_type"][2]))
    /\ Typed(e[2], "delete_on_termination", "bool")
    /\ Typed(e[2], "encrypted", "bool")
    /\ Typed(e[2], "iops", "int")
    /\ Passes(e[2], "snapshot_id", is_snapshot_id(e[2]["snapshot_id"][2]))

valid_device(d) ==
    /\ d[1] = "map"
    /\ DOMAIN d[2] \subseteq DeviceKeys
    /\ "device_name" \in DOMAIN d[2]
    /\ d[2]["device_name"][1] = "str"
    /\ "ebs" \in DOMAIN d[2] => valid_ebs(d[2]["ebs"])
    /\ Typed(d[2], "no_device", "str")
    /\ Passes(d[2], "virtual_name", is_virtual_name(d[2]["virtual_name"][2]))

valid_devices(l) ==
    /\ l[1] = "list"
    /\ \A i \in 1..Len(l[2]) : valid_device(l[2][i])

\* the record schema with `image` optional
valid_record_image_optional(r) ==
    /\ DOMAIN r \subseteq RecordKeys
    /\ Typed(r, "platform", "str")
    /\ Typed(r, "profile", "str")
    /\ Typed(r, "extra_vars", "map")
    /\ Typed(r, "image", "str")
    /\ "instance_type" \in DOMAIN r
    /\ r["instance_type"][1] = "str"
    /\ Typed(r, "username", "str")
    /\ "block_device_mappings" \in DOMAIN r => valid_devices(r["block_device_mappings"])

valid_record(r) ==
    /\ DOMAIN r \subseteq RecordKeys
    /\ Typed(r, "platform", "str")
    /\ Typed(r, "profile", "str")
    /\ Typed(r, "extra_vars", "map")
    /\ "image" \in DOMAIN r
    /\ r["image"][1] = "str"
    /\ "instance_type" \in DOMAIN r
    /\ r["instance_type"][1] = "str"
    /\ Typed(r, "username", "str")
    /\ "block_device_mappings" \in DOMAIN r => valid_devices(r["block_device_mappings"])

\* v.Optional(..., default=...)
with_defaults(r) ==
    Update(("username" :> Str("ec2-user")) @@ ("block_device_mappings" :> List(<<>>)), r)

\* Schema({str: {...}})(m): the validated mapping, or MultipleInvalid
post_merge_schema(m) ==
    IF \A K \in DOMAIN m : valid_record(m[K])
    THEN <<"ok", [K \in DOMAIN m |-> with_defaults(m[K])]>>
    ELSE <<"invalid">>

----------------------------------------------------------------------------
(* Merged mappings handed to post_merge_schema *)

MaxRecords == 2

MaxDevices == 1

SchemaKeys == <<"web-prod", "web-default", "db-prod", "db-default">>

Device(fields) == Map(fields)

GoodDevice ==
    Device(("device_name" :> Str("/dev/sda1"))
        @@ ("ebs" :> Map(("volume_type" :> Str("gp2")) @@ ("snapshot_id" :> Str(SnapDeadbeef)))))

NamelessDevice == Device("ebs" :> Map("volume_type" :> Str("gp2")))

BadTypeDevice ==
    Device(("device_name" :> Str("/dev/sda1")) @@ ("ebs" :> Map("volume_type" :> Str("foo"))))

BadSnapshotDevice ==
    Device(("device_name" :> Str("/dev/sda1")) @@ ("ebs" :> Map("snapshot_id" :> Str(SnapXyz))))

Devices == {GoodDevice, NamelessDevice, BadTypeDevice, BadSnapshotDevice}

FullRecord ==
    [ platform |-> Str("web"), profile |-> Str("prod"), extra_vars |-> Map(EmptyDict),
      image |-> Str("ami-123"), instance_type |-> Str("t2.micro"),
      block_device_mappings |-> List(<<>>) ]

\* the records merge_config can hand over: some keys left out, some device
\* mappings, and one with a key the schema does not name
SchemaRecords ==
    { Update(Only(FullRecord, {"platform", "profile", "extra_vars"} \cup ks), dm) :
        ks \in SUBSET {"image", "instance_type"},
        dm \in { EmptyDict }
                 \cup { "block_device_mappings" :> List(l) : l \in SeqsUpTo(Devices, MaxDevices) } }
        \cup { Update(FullRecord, "region" :> Str("us-east-1")) }

SchemaInputs ==
    UNION { [ { SchemaKeys[i] : i \in 1..n } -> SchemaRecords ] : n \in 0..MaxRecords }

InitSchema ==
    /\ merged \in SchemaInputs
    /\ resolved = <<"pending">>
    /\ vstage = "pending"
    /\ MergeIdle
    /\ SnapIdle
    /\ LifeIdle
    /\ PollIdle

PostMerge ==
    /\ vstage = "pending"
    /\ resolved' = post_merge_schema(merged)
    /\ vstage' = IF resolved'[1] = "ok" THEN "valid" ELSE "raised"
    /\ UNCHANGED <<merged, mergeVars, snapVars, lifeVars, pollVars>>

NextSchema == PostMerge

SpecSchema == InitSchema /\ [][NextSchema]_vars

\* a device mapping without device_name, or with a volume type outside the
\* enumeration, or with a snapshot id that does not start as one
Malformed(d) ==
    \/ "device_name" \notin DOMAIN d[2]
    \/ /\ "ebs" \in DOMAIN d[2]
       /\ LET e == d[2]["ebs"][2]
          IN  \/ "volume_type" \in DOMAIN e /\ e["volume_type"] \notin {Str("gp2"), Str("io1"), Str("standard")}
              \/ "snapshot_id" \in DOMAIN e /\ ~re_match(SnapPrefix, HexDigits, HexCount, e["snapshot_id"][2])

Unfit(r) ==
    \/ "image" \notin DOMAIN r
    \/ "instance_type" \notin DOMAIN r
    \/ /\ "block_device_mappings" \in DOMAIN r
       /\ \E i \in 1..Len(r["block_device_mappings"][2]) : Malformed(r["block_device_mappings"][2][i])

\* C5: post-merge validation is all-or-nothing. One record lacking image or
\* instance_type, or holding a malformed device mapping, makes the validation
\* of the whole mapping raise with no validated record returned; a result is
\* returned only when no record is unfit, and then for every key.
C5_AllOrNothing ==
    vstage \in {"valid", "raised"} =>
        /\ (\E K \in DOMAIN merged : Unfit(merged[K]))
              => (vstage = "raised" /\ resolved = <<"invalid">>)
        /\ vstage = "valid"
              => /\ \A K \in DOMAIN merged : ~Unfit(merged[K])
                 /\ resolved[1] = "ok"
                 /\ DOMAIN resolved[2] = DOMAIN merged

\* a mapping with one record that meets the schema and one that lacks image
C5_Witness ==
    /\ vstage = "raised"
    /\ \E K, L \in DOMAIN merged :
          /\ ~Unfit(merged[K])
          /\ DOMAIN merged[K] \subseteq RecordKeys
          /\ "image" \notin DOMAIN merged[L]
          /\ "instance_type" \in DOMAIN merged[L]

----------------------------------------------------------------------------
(* yaml.safe_dump and yaml.load of the instance record.                     *)
(* A document is a sequence of <<key, scalar>> lines, keys sorted; a scalar *)
(* is written plain or quoted and a plain scalar is resolved when loaded.   *)

None == <<"none", "">>

NullTexts == {"null", "Null", "NULL", "~", ""}

BoolTexts == {"true", "True", "TRUE", "false", "False", "FALSE",
              "yes", "Yes", "YES", "no", "No", "NO", "on", "On", "ON", "off", "Off", "OFF"}

\* the implicit resolver on a plain scalar (no text of this model is numeric)
yaml_resolve(text) ==
    IF text \in NullTexts THEN "null"
    ELSE IF text \in BoolTexts THEN "bool"
    ELSE "str"

\* every string written plain
yaml_represent_plain(v) ==
    IF v = None THEN [style |-> "plain", text |-> "null"]
    ELSE [style |-> "plain", text |-> v[2]]

\* None is written null; a string is written plain unless a plain scalar of
\* that text would resolve to something else
yaml_represent(v) ==
    IF v = None THEN [style |-> "plain", text |-> "null"]
    ELSE IF yaml_resolve(v[2]) = "str" THEN [style |-> "plain", text |-> v[2]]
    ELSE [style |-> "quoted", text |-> v[2]]

yaml_construct(scalar) ==
    IF scalar.style = "quoted" THEN Str(scalar.text)
    ELSE IF yaml_resolve(scalar.text) = "null" THEN None
    ELSE IF yaml_resolve(scalar.text) = "bool" THEN <<"bool", scalar.text>>
    ELSE Str(scalar.text)

RecordOrder == <<"id", "ip", "keyname", "platform">>

\* yaml.safe_dump(dict(id=..., ip=..., keyname=..., platform=...))
safe_dump(d) ==
    [i \in 1..Len(RecordOrder) |-> <<RecordOrder[i], yaml_represent(d[RecordOrder[i]])>>]

\* yaml.load(f)
yaml_load(doc) ==
    [k \in { doc[i][1] : i \in 1..Len(doc) } |->
        LET i == CHOOSE j \in 1..Len(doc) : doc[j][1] = k
        IN  yaml_construct(doc[i][2])]

----------------------------------------------------------------------------
(* Instances: create_instance, write_files, load_or_create_instance, delete *)

KeyNames == {"bossimage-A", "bossimage-B"}

InstanceIds == {"i-1", "i-2", "i-3"}

Addresses == {Str("10.0.0.1"), None}

\* validated records of the merged configuration
LifeConfigs ==
    { [ platform |-> Str(p), profile |-> Str("prod"), image |-> Str("ami-123"),
        instance_type |-> Str("t2.micro"), username |-> Str("ec2-user"),
        block_device_mappings |-> List(<<>>) ] : p \in {"web", "null"} }

LifeInstances == { config_instance(cfg) : cfg \in LifeConfigs }

Paths(instance) ==
    { instance_files(instance).config, instance_files(instance).keyfile,
      instance_files(instance).inventory, instance_files(instance).playbook }

exists(path) == path \in DOMAIN fs

\* what the last call was and how it ended; n tells one call from the next
Call(op, instance, outcome, ret, created) ==
    [n |-> 1 - last.n, op |-> op, instance |-> instance, outcome |-> outcome,
     ret |-> ret, created |-> created]

\* the files write_files leaves, given those create_instance left
write_files(files, before, id, ip, keyname, config) ==
    LET record == [ id |-> Str(id), ip |-> ip, keyname |-> Str(keyname),
                    platform |-> config["platform"] ]
        inventory == <<ip, files.keyfile, config["username"]>>
        playbook == [hosts |-> "all", become |-> TRUE, roles |-> <<"cwd">>]
    IN  Update(before, (files.config :> safe_dump(record))
                        @@ (files.inventory :> inventory)
                        @@ (files.playbook :> playbook))

\* create_instance: the key pair, the key file, the instance, the wait
CreateInstance(config, files, keyname) ==
    \/ \* create_key_pair raises: the name is taken
       /\ keyname \in keypairs
       /\ last' = Call("load", config_instance(config), "raised", EmptyDict, FALSE)
       /\ UNCHANGED <<fs, keypairs, instances>>
    \/ \* create_instances raises: the key pair and its file stay
       /\ keyname \notin keypairs
       /\ keypairs' = keypairs \cup {keyname}
       /\ fs' = Update(fs, files.keyfile :> <<"key_material", keyname>>)
       /\ last' = Call("load", config_instance(config), "raised", EmptyDict, FALSE)
       /\ UNCHANGED instances
    \/ \* wait_until_running raises: the instance stays as well
       /\ keyname \notin keypairs
       /\ keypairs' = keypairs \cup {keyname}
       /\ fs' = Update(fs, files.keyfile :> <<"key_material", keyname>>)
       /\ \E id \in InstanceIds \ DOMAIN instances :
             instances' = Update(instances, id :> [state |-> "pending", ip |-> None])
       /\ last' = Call("load", config_instance(config), "raised", EmptyDict, FALSE)
    \/ \* the instance runs: write_files, then the record is read back
       /\ keyname \notin keypairs
       /\ keypairs' = keypairs \cup {keyname}
       /\ \E id \in InstanceIds \ DOMAIN instances, ip \in Addresses :
             /\ instances' = Update(instances, id :> [state |-> "running", ip |-> ip])
             /\ fs' = write_files(files,
                                  Update(fs, files.keyfile :> <<"key_material", keyname>>),
                                  id, ip, keyname, config)
       /\ last' = Call("load", config_instance(config), "returned", yaml_load(fs'[files.config]), TRUE)

load_or_create_instance(config) ==
    LET instance == config_instance(config)
        files == instance_files(instance)
    IN  \/ /\ ~exists(files.config)
           /\ \E keyname \in KeyNames : CreateInstance(config, files, keyname)
        \/ /\ exists(files.config)
           /\ last' = Call("load", instance, "returned", yaml_load(fs[files.config]), FALSE)
           /\ UNCHANGED <<fs, keypairs, instances>>

\* only the record unlinked
Unlink_record_only(instance) ==
    /\ fs' = Without(fs, {instance_files(instance).config})
    /\ last' = Call("delete", instance, "returned", EmptyDict, FALSE)

\* for f in files.values(): os.unlink(f), which raises at the first missing file
Unlink(instance) ==
    IF Paths(instance) \subseteq DOMAIN fs
    THEN /\ fs' = Without(fs, Paths(instance))
         /\ last' = Call("delete", instance, "returned", EmptyDict, FALSE)
    ELSE /\ \E gone \in SUBSET (Paths(instance) \cap DOMAIN fs) : fs' = Without(fs, gone)
         /\ last' = Call("delete", instance, "raised", EmptyDict, FALSE)

delete(instance) ==
    LET files == instance_files(instance)
    IN  \/ \* open(files['config']) raises
           /\ ~exists(files.config)
           /\ last' = Call("delete", instance, "raised", EmptyDict, FALSE)
           /\ UNCHANGED <<fs, keypairs, instances>>
        \/ /\ exists(files.config)
           /\ LET rec == yaml_load(fs[files.config])
                  id == Text(rec["id"])
                  terminated == [instances EXCEPT ![id].state = "terminated"]
              IN  \/ \* terminate raises
                     /\ last' = Call("delete", instance, "raised", EmptyDict, FALSE)
                     /\ UNCHANGED <<fs, keypairs, instances>>
                  \/ \* kp.delete raises
                     /\ instances' = terminated
                     /\ last' = Call("delete", instance, "raised", EmptyDict, FALSE)
                     /\ UNCHANGED <<fs, keypairs>>
                  \/ /\ instances' = terminated
                     /\ keypairs' = keypairs \ {Text(rec["keyname"])}
                     /\ Unlink(instance)

InitLife ==
    /\ fs = EmptyDict
    /\ keypairs = {}
    /\ instances = EmptyDict
    /\ last = [n |-> 0, op |-> "none"]
    /\ MergeIdle
    /\ merged = [k \in {} |-> EmptyDict]
    /\ SchemaIdle
    /\ SnapIdle
    /\ PollIdle

LoadOrCreate ==
    /\ \E config \in LifeConfigs : load_or_create_instance(config)
    /\ UNCHANGED <<mergeVars, merged, schemaVars, snapVars, pollVars>>

Delete ==
    /\ \E instance \in LifeInstances : delete(instance)
    /\ UNCHANGED <<mergeVars, merged, schemaVars, snapVars, pollVars>>

NextLife == LoadOrCreate \/ Delete

SpecLife == InitLife /\ [][NextLife]_vars

\* C7: the record file is the existence marker. A call of
\* load_or_create_instance that returns has created one key pair and one
\* instance if the record of its instance key was absent and nothing if it
\* was present; it returns the record on disk, which carries the id, ip,
\* keyname and platform of the provisioning; and a record stays as written
\* until it is deleted, so later calls return the same record.
C7_ExistenceMarker ==
    [][ /\ (last'.n # last.n /\ last'.op = "load" /\ last'.outcome = "returned") =>
            LET path == instance_files(last'.instance).config
                newKeys == keypairs' \ keypairs
                newIds == DOMAIN instances' \ DOMAIN instances
            IN  /\ path \in DOMAIN fs'
                /\ last'.ret = yaml_load(fs'[path])
                /\ DOMAIN last'.ret = {"id", "ip", "keyname", "platform"}
                /\ IF path \in DOMAIN fs
                   THEN /\ UNCHANGED <<fs, keypairs, instances>>
                        /\ last'.ret = yaml_load(fs[path])
                   ELSE /\ keypairs \subseteq keypairs'
                        /\ Cardinality(newKeys) = 1
                        /\ Cardinality(newIds) = 1
                        /\ \A id \in newIds :
                              /\ last'.ret["id"] = Str(id)
                              /\ last'.ret["ip"] = instances'[id].ip
                              /\ instances'[id].state = "running"
                        /\ \A k \in newKeys : last'.ret["keyname"] = Str(k)
                        /\ \E cfg \in LifeConfigs :
                              /\ config_instance(cfg) = last'.instance
                              /\ last'.ret["platform"] = cfg["platform"]
        /\ \A inst \in LifeInstances :
              LET path == instance_files(inst).config
              IN  (path \in DOMAIN fs /\ path \in DOMAIN fs') => fs'[path] = fs[path]
      ]_vars

\* a call that found the record of platform "null" and returned it, with the
\* one key pair and the one instance of its provisioning
C7_Witness ==
    /\ last.op = "load"
    /\ last.outcome = "returned"
    /\ ~last.created
    /\ last.ret["platform"] = Str("null")
    /\ keypairs = {Text(last.ret["keyname"])}
    /\ DOMAIN instances = {Text(last.ret["id"])}

\* C10: a delete that completes has terminated the instance and deleted the
\* key pair its record names and removed the four state files, and the next
\* load_or_create_instance for that key provisions a new instance with a new
\* key pair; a delete without a record raises and changes nothing.
C10_DeleteThenReprovision ==
    [][ /\ (last'.n # last.n /\ last'.op = "delete") =>
            LET files == instance_files(last'.instance)
            IN  IF files.config \notin DOMAIN fs
                THEN /\ last'.outcome = "raised"
                     /\ UNCHANGED <<fs, keypairs, instances>>
                ELSE last'.outcome = "returned" =>
                        LET rec == yaml_load(fs[files.config])
                        IN  /\ instances'[Text(rec["id"])].state = "terminated"
                            /\ Text(rec["keyname"]) \notin keypairs'
                            /\ Paths(last'.instance) \cap DOMAIN fs' = {}
        /\ ( /\ last'.n # last.n
             /\ last.op = "delete" /\ last.outcome = "returned"
             /\ last'.op = "load" /\ last'.outcome = "returned"
             /\ last'.instance = last.instance ) =>
                /\ last'.created
                /\ Text(last'.ret["id"]) \notin DOMAIN instances
                /\ instances'[Text(last'.ret["id"])].state = "running"
                /\ Text(last'.ret["keyname"]) \notin keypairs
                /\ Text(last'.ret["keyname"]) \in keypairs'
      ]_vars

\* a delete has completed: an instance is terminated, no key pair is left and
\* no state file of the instance exists
C10_Witness ==
    /\ last.op = "delete"
    /\ last.outcome = "returned"
    /\ \E id \in DOMAIN instances : instances[id].state = "terminated"
    /\ keypairs = {}
    /\ Paths(last.instance) \cap DOMAIN fs = {}

----------------------------------------------------------------------------
(* wait_for_image and wait_for_ssh: the two polling loops and the cloud     *)
(* image and the host they poll                                             *)

MaxPolls == 3

CountUp(n) == IF n < MaxPolls THEN n + 1 ELSE n

\* the loop leaving on any state but pending
image_done_unless_pending(state) == state # "pending"

\* if image.state == 'available': break
image_done(state) == state = "available"

InitPoll ==
    /\ imgState = "pending"
    /\ imgSeen = "pending"
    /\ imgPc = "reload"
    /\ imgPolls = 0
    /\ sshUp = FALSE
    /\ sshPc = "connect"
    /\ sshLast = "none"
    /\ sshPolls = 0
    /\ MergeIdle
    /\ merged = [k \in {} |-> EmptyDict]
    /\ SchemaIdle
    /\ SnapIdle
    /\ LifeIdle

Others == <<mergeVars, merged, schemaVars, snapVars, lifeVars>>

\* the cloud: a pending image becomes available or fails
ImageChanges ==
    /\ imgState = "pending"
    /\ imgState' \in {"available", "failed"}
    /\ UNCHANGED <<imgSeen, imgPc, imgPolls, sshUp, sshPc, sshLast, sshPolls, Others>>

\* image.reload() and the test of image.state; an error of the call is not caught
ImgReload ==
    /\ imgPc = "reload"
    /\ imgPolls' = CountUp(imgPolls)
    /\ \/ /\ imgSeen' = imgState
          /\ imgPc' = IF image_done(imgSeen') THEN "returned" ELSE "sleep"
       \/ /\ imgPc' = "raised"
          /\ UNCHANGED imgSeen
    /\ UNCHANGED <<imgState, sshUp, sshPc, sshLast, sshPolls, Others>>

\* time.sleep(5)
ImgSleep ==
    /\ imgPc = "sleep"
    /\ imgPc' = "reload"
    /\ UNCHANGED <<imgState, imgSeen, imgPolls, sshUp, sshPc, sshLast, sshPolls, Others>>

\* the host: sshd comes up or goes away
SshChanges ==
    /\ sshUp' = ~sshUp
    /\ UNCHANGED <<imgState, imgSeen, imgPc, imgPolls, sshPc, sshLast, sshPolls, Others>>

\* socket.create_connection((addr, 22), 1) inside try / except
SshConnect ==
    /\ sshPc = "connect"
    /\ sshPolls' = CountUp(sshPolls)
    /\ sshLast' = IF sshUp THEN "connected" ELSE "failed"
    /\ sshPc' = IF sshLast' = "connected" THEN "returned" ELSE "sleep"
    /\ UNCHANGED <<imgState, imgSeen, imgPc, imgPolls, sshUp, Others>>

\* time.sleep(5) in the except clause
SshSleep ==
    /\ sshPc = "sleep"
    /\ sshPc' = "connect"
    /\ UNCHANGED <<imgState, imgSeen, imgPc, imgPolls, sshUp, sshLast, sshPolls, Others>>

wait_for_image == ImgReload \/ ImgSleep

wait_for_ssh == SshConnect \/ SshSleep

NextPoll == ImageChanges \/ ImgReload \/ ImgSleep \/ SshChanges \/ SshConnect \/ SshSleep

\* the loops keep running: each of their steps is taken when it can be
SpecPoll ==
    InitPoll /\ [][NextPoll]_vars /\ WF_vars(wait_for_image) /\ WF_vars(wait_for_ssh)

\* C8 as stated: a loop ends, by returning or by raising, only when its
\* condition holds; otherwise it neither returns nor raises.
C8_EndsOnlyOnCondition ==
    /\ imgPc \in {"returned", "raised"} => imgSeen = "available"
    /\ sshPc \in {"returned", "raised"} => sshLast = "connected"

\* C8: the loops have no attempt cap. wait_for_image returns only on a reload
\* that observes `available`, wait_for_ssh only on a connect that succeeds,
\* and wait_for_ssh never raises; while a loop has not ended its next step
\* can always be taken, whatever the number of attempts; each ends if its
\* condition comes to hold for good, and while the condition does not hold
\* wait_for_ssh retries for ever and wait_for_image ends only by an error of
\* image.reload(), which it does not catch.
C8_Polling ==
    /\ [](imgPc = "returned" => imgSeen = "available")
    /\ [](sshPc \in {"connect", "sleep", "returned"})
    /\ [](sshPc = "returned" => sshLast = "connected")
    /\ [](imgPc \in {"reload", "sleep"} => ENABLED wait_for_image)
    /\ [](sshPc \in {"connect", "sleep"} => ENABLED wait_for_ssh)
    /\ (<>[](imgState = "available") => <>(imgPc \in {"returned", "raised"}))
    /\ (<>[]sshUp => <>(sshPc = "returned"))
    /\ ([](~sshUp) => []<>(sshPc = "connect"))
    /\ ([](imgState # "available") => [](imgPc # "returned"))

\* both loops still polling after MaxPolls attempts, the image having failed
C8_Witness ==
    /\ imgState = "failed"
    /\ imgPc = "reload"
    /\ imgPolls = MaxPolls
    /\ ~sshUp
    /\ sshPc = "connect"
    /\ sshPolls = MaxPolls

====
